---------------------------- MODULE Spec2Model ----------------------------
(***************************************************************************)
(* Coordinators of the Shelly integration                                  *)
(* (homeassistant/components/shelly/coordinator.py).                       *)
(*                                                                         *)
(* Five specifications over one set of variables:                          *)
(*   SpecBlock   BlockDeviceWrapper._async_device_updates_handler on a     *)
(*               changing device snapshot (event de-duplication, config    *)
(*               change detection);                                        *)
(*   SpecRpc     RpcDeviceWrapper._async_device_updates_handler on the     *)
(*               event records an RPC device sends;                        *)
(*   SpecReload  the reload debounce trigger armed by the handler, and     *)
(*               the teardown paths (entry unload, stop hook);             *)
(*   SpecFetch   the polling loop around the three _async_update_data;     *)
(*   SpecOta     async_trigger_ota_update of both wrappers.                *)
(***************************************************************************)
EXTENDS Integers, Sequences, FiniteSets, TLC

VARIABLES
    op,                       \* name of the last operation that ran
    \* ---- BlockDeviceWrapper: device snapshot and handler state
    model,                    \* entry.data["model"], as its membership in the model lists
    initialized,              \* device.initialized
    blocks,                   \* device.blocks
    last_input_events_count,  \* self._last_input_events_count (dict: channel -> counter)
    last_cfg_changed,         \* self._last_cfg_changed (int | None)
    last_mode,                \* self._last_mode (str | None)
    last_effect,              \* self._last_effect (int | None)
    run,                      \* what the last handler run saw and emitted, and
                              \* whether it followed another run on the same snapshot
    lastRunReset,             \* the last handler run reset a stored config-changed
                              \* baseline to None (mode or effect change)
    \* ---- RpcDeviceWrapper: device event and handler state
    event,                    \* device.event (dict | None)
    last_event,               \* self._last_event (dict | None)
    rpcRun,                   \* what the last run of the RPC handler saw and emitted
    \* ---- reload debounce trigger and teardown
    armTasks,                 \* tasks created for _debounced_reload.async_call(), not yet run
    timers,                   \* pending debounce timers (time left on each)
    sinceArm,                 \* time since the last arming call (saturates at the cooldown)
    burstArms,                \* arming calls since the trigger last left idle
    runsInBurst,              \* reload executions since the trigger last left idle
    listening,                \* the update handler is subscribed to the coordinator
    stopHook,                 \* the EVENT_HOMEASSISTANT_STOP listener is registered
    teardownLog,              \* teardown steps taken so far, in order
    \* ---- polling loop
    kind,                     \* which coordinator: "block", "rpc", "rpc_poll"
    sleep_period,             \* entry.data.get(CONF_SLEEP_PERIOD) (int | None)
    connected,                \* device.connected
    inFlight,                 \* fetches started and not finished
    awaiting,                 \* device operation a running fetch awaits
    lastData,                 \* coordinator.data
    lastUpdateSucceeded,      \* coordinator.last_update_success
    outcome,                  \* how the last fetch ended at the device
    \* ---- OTA trigger
    otaKind,                  \* "block" or "rpc"
    otaStatus,                \* the device status the trigger reads
    ota                       \* the invocations of async_trigger_ota_update

blockVars  == <<model, initialized, blocks, last_input_events_count,
                last_cfg_changed, last_mode, last_effect, run, lastRunReset>>
rpcVars    == <<event, last_event, rpcRun>>
reloadVars == <<armTasks, timers, sinceArm, burstArms, runsInBurst>>
downVars   == <<listening, stopHook, teardownLog>>
fetchVars  == <<kind, sleep_period, connected, inFlight, awaiting, lastData,
                lastUpdateSucceeded, outcome>>
otaVars    == <<otaKind, otaStatus, ota>>
vars       == <<op, blockVars, rpcVars, reloadVars, downVars, fetchVars, otaVars>>

----------------------------------------------------------------------------
(* Bounds of the model *)

\* device event counters range over 0..MaxCnt
MaxCnt == 1
\* the device's cfgChanged counter ranges over 0..MaxCfg
MaxCfg == 1
\* at most this many arming tasks wait in the event loop
MaxTasks == 2
\* at most this many arming calls are followed within one burst
MaxBurst == 3
\* pushed data snapshots are numbered 1..MaxData
MaxData == 2
\* number of invocations of the OTA trigger
NumOtaCalls == 2
\* an event record of an RPC device lists at most this many entries
MaxEvents == 2

----------------------------------------------------------------------------
(* Python values *)

\* Optional values: None, or Some(x)
None == <<>>
Some(x) == <<x>>
Val(o) == o[1]

\* d[k] = v on a dict
DictSet(d, k, v) == [c \in (DOMAIN d) \cup {k} |-> IF c = k THEN v ELSE d[c]]

\* d.get(k)
DictGet(d, k) == IF k \in DOMAIN d THEN Some(d[k]) ELSE None

\* int(s) on the channel strings a device reports
IntOfStr == [s \in {"0", "1"} |-> IF s = "0" THEN 0 ELSE 1]

----------------------------------------------------------------------------
(* The block device *)

\* membership of entry.data["model"] in SHBTN_MODELS, DUAL_MODE_LIGHT_MODELS and
\* MODELS_SUPPORTING_LIGHT_EFFECTS
PlainModel   == [shbtn |-> FALSE, dual |-> FALSE, effects |-> FALSE]
ButtonModel  == [shbtn |-> TRUE,  dual |-> FALSE, effects |-> FALSE]
DualModel    == [shbtn |-> FALSE, dual |-> TRUE,  effects |-> TRUE]
EffectsModel == [shbtn |-> FALSE, dual |-> FALSE, effects |-> TRUE]
ModelClasses == {PlainModel, ButtonModel, DualModel, EffectsModel}

\* the click lookup table
INPUTS_EVENTS_DICT == [t \in {"S", "L"} |-> IF t = "S" THEN "single" ELSE "long"]

\* values of a block's inputEvent field: empty, two known types, one unknown type
EventTypes == {"", "S", "L", "Z"}

WakeupEvents == {<<"button">>, <<"periodic">>, <<"button", "periodic">>}
Modes == {"color", "white"}
Effects == {0, 1}

DeviceBlock(cfg, wake) ==
    [type |-> "device", channel |-> None, sensor_ids |-> {"cfgChanged", "wakeupEvent"},
     cfgChanged |-> cfg, wakeupEvent |-> wake]

InputBlock(ch, ev, cnt) ==
    [type |-> "input", channel |-> ch, sensor_ids |-> {"inputEvent", "inputEventCnt"},
     inputEvent |-> ev, inputEventCnt |-> cnt]

LightBlock(ch, mode, effect) ==
    [type |-> "light", channel |-> ch, sensor_ids |-> {"mode", "effect"},
     mode |-> mode, effect |-> effect]

\* the blocks of a device of each model class when it is first seen
InitialBlocks(m) ==
    IF m.shbtn
    THEN <<DeviceBlock(0, <<"periodic">>), InputBlock(None, "", 0)>>
    ELSE IF m.dual \/ m.effects
    THEN <<DeviceBlock(0, <<"periodic">>), LightBlock(Some("0"), "color", 0)>>
    ELSE <<DeviceBlock(0, <<"periodic">>),
           InputBlock(Some("0"), "", 0), InputBlock(Some("1"), "", 0)>>

\* the first snapshots of a device of each model class: with a device block, and for
\* the plain class also without one
InitialSnapshots(m) ==
    {InitialBlocks(m)}
    \cup (IF m = PlainModel
          THEN {<<InputBlock(Some("0"), "", 0), InputBlock(Some("1"), "", 0)>>}
          ELSE {})

\* the values a block of the device can take (only battery devices report a
\* changing wakeupEvent)
BlockValues(m, b) ==
    IF b.type = "device"
    THEN {DeviceBlock(c, w) : c \in 0..MaxCfg,
                              w \in (IF m.shbtn THEN WakeupEvents ELSE {b.wakeupEvent})}
    ELSE IF b.type = "input"
    THEN {InputBlock(b.channel, e, n) : e \in EventTypes, n \in 0..MaxCnt}
    ELSE {LightBlock(b.channel, mo, e) : mo \in Modes, e \in Effects}

----------------------------------------------------------------------------
(* BlockDeviceWrapper._async_device_updates_handler *)

\* the first block of type "device", as the priming loop finds it
RECURSIVE FirstDeviceBlock(_, _)
FirstDeviceBlock(bs, i) ==
    IF i > Len(bs) THEN None
    ELSE IF bs[i].type = "device" THEN Some(bs[i])
    ELSE FirstDeviceBlock(bs, i + 1)

\* PrimeButton that primes on every run, whether or not a baseline is stored
PrimeButtonAlways(m, bs, counts) ==
    IF m.shbtn
    THEN LET d == FirstDeviceBlock(bs, 1)
         IN  IF d # None /\ Len(Val(d).wakeupEvent) = 1 /\ Val(d).wakeupEvent[1] = "button"
             THEN DictSet(counts, 1, -1)
             ELSE counts
    ELSE counts

\* battery powered buttons: initial value for last_event_count
PrimeButton(m, bs, counts) ==
    IF m.shbtn /\ DictGet(counts, 1) = None
    THEN LET d == FirstDeviceBlock(bs, 1)
         IN  IF d # None /\ Len(Val(d).wakeupEvent) = 1 /\ Val(d).wakeupEvent[1] = "button"
             THEN DictSet(counts, 1, -1)
             ELSE counts
    ELSE counts

\* channel = int(block.channel or 0) + 1
EventChannel(block) ==
    (IF block.channel = None THEN 0 ELSE IntOfStr[Val(block.channel)]) + 1

\* SkipEvent that also drops an event whose type is not in the click lookup table
SkipEventUnknownType(last_event_count, inputEventCnt, event_type) ==
    \/ last_event_count = None
    \/ last_event_count = Some(inputEventCnt)
    \/ event_type \notin DOMAIN INPUTS_EVENTS_DICT

\* SkipEvent without the comparison of the counter with the baseline
SkipEventNoEquality(last_event_count, inputEventCnt, event_type) ==
    \/ last_event_count = None
    \/ event_type = ""

\* SkipEvent without the test for a missing baseline
SkipEventNoBaseline(last_event_count, inputEventCnt, event_type) ==
    \/ last_event_count = Some(inputEventCnt)
    \/ event_type = ""

\* the condition under which an input block emits nothing
SkipEvent(last_event_count, inputEventCnt, event_type) ==
    \/ last_event_count = None
    \/ last_event_count = Some(inputEventCnt)
    \/ event_type = ""

\* ClickEvent carrying the device's 0-based channel index
ClickEventZeroBased(channel, event_type) ==
    [channel |-> channel - 1, click_type |-> INPUTS_EVENTS_DICT[event_type],
     generation |-> 1]

\* the click event fired on the bus
ClickEvent(channel, event_type) ==
    [channel |-> channel, click_type |-> INPUTS_EVENTS_DICT[event_type], generation |-> 1]

\* the body of the loop over device.blocks, for one block
ProcessBlock(m, st, block) ==
    LET st1 == IF block.type = "device"
               THEN [st EXCEPT !.cfg_changed = block.cfgChanged]
               ELSE st
        st2 == IF m.dual /\ "mode" \in block.sensor_ids
               THEN [st1 EXCEPT
                       !.last_cfg_changed =
                           IF st1.last_mode # Some(block.mode) THEN None ELSE @,
                       !.last_mode = Some(block.mode)]
               ELSE st1
        st3 == IF m.effects /\ "effect" \in block.sensor_ids
               THEN [st2 EXCEPT
                       !.last_cfg_changed =
                           IF st2.last_effect # Some(block.effect) THEN None ELSE @,
                       !.last_effect = Some(block.effect)]
               ELSE st2
    IN  IF "inputEvent" \notin block.sensor_ids \/ "inputEventCnt" \notin block.sensor_ids
        THEN st3
        ELSE
          LET channel == EventChannel(block)
              event_type == block.inputEvent
              last_event_count == DictGet(st3.counts, channel)
              st4 == [st3 EXCEPT !.counts = DictSet(@, channel, block.inputEventCnt)]
          IN  IF SkipEvent(last_event_count, block.inputEventCnt, event_type)
              THEN st4
              ELSE IF event_type \in DOMAIN INPUTS_EVENTS_DICT
              THEN [st4 EXCEPT !.fired = Append(@, ClickEvent(channel, event_type))]
              ELSE [st4 EXCEPT !.warnings =
                                   Append(@, [channel |-> channel, event_type |-> event_type])]

RECURSIVE ProcessBlocks(_, _, _, _)
ProcessBlocks(m, st, bs, i) ==
    IF i > Len(bs) THEN st
    ELSE ProcessBlocks(m, ProcessBlock(m, st, bs[i]), bs, i + 1)

\* ReloadNeeded that also arms on a counter equal to the baseline
ReloadNeededOrEqual(last_cfg, cfg_changed) ==
    last_cfg # None /\ cfg_changed >= Val(last_cfg)

\* ReloadNeeded that also arms when no baseline is known
ReloadNeededOnUnknown(last_cfg, cfg_changed) ==
    last_cfg = None \/ cfg_changed > Val(last_cfg)

\* whether the run arms the reload trigger
ReloadNeeded(last_cfg, cfg_changed) ==
    last_cfg # None /\ cfg_changed > Val(last_cfg)

\* the handler on an initialized device: the state when the loop is done
HandlerResult ==
    ProcessBlocks(model,
                  [counts |-> PrimeButton(model, blocks, last_input_events_count),
                   last_cfg_changed |-> last_cfg_changed,
                   last_mode |-> last_mode,
                   last_effect |-> last_effect,
                   cfg_changed |-> 0,
                   fired |-> <<>>,
                   warnings |-> <<>>],
                  blocks, 1)

\* a store that leaves a baseline the run reset to None as it is
StoredCfgChangedKeepsReset(st) ==
    IF st.last_cfg_changed = None THEN None ELSE Some(st.cfg_changed)

\* self._last_cfg_changed = cfg_changed, at the end of the run
StoredCfgChanged(st) == Some(st.cfg_changed)

NoRun == [ran |-> FALSE]

BlockHandler ==
    /\ listening
    /\ \/ /\ ~initialized
          /\ run' = NoRun
          /\ UNCHANGED <<last_input_events_count, last_cfg_changed, last_mode,
                         last_effect, armTasks, lastRunReset>>
       \/ /\ initialized
          /\ LET st == HandlerResult
                 armed == ReloadNeeded(st.last_cfg_changed, st.cfg_changed)
             IN  /\ armed => armTasks < MaxTasks
                 /\ last_input_events_count' = st.counts
                 /\ last_mode' = st.last_mode
                 /\ last_effect' = st.last_effect
                 /\ last_cfg_changed' = StoredCfgChanged(st)
                 /\ armTasks' = IF armed THEN armTasks + 1 ELSE armTasks
                 /\ lastRunReset' = (last_cfg_changed # None /\ st.last_cfg_changed = None)
                 /\ run' = [ran |-> TRUE,
                            again |-> run.ran,
                            after_reset |-> lastRunReset,
                            before |-> last_input_events_count,
                            cfg_before |-> last_cfg_changed,
                            mode_before |-> last_mode,
                            effect_before |-> last_effect,
                            cfg_compared |-> st.last_cfg_changed,
                            fired |-> st.fired,
                            warnings |-> st.warnings,
                            armed |-> armed]
    /\ op' = "handler"
    /\ UNCHANGED <<model, initialized, blocks>>
    /\ UNCHANGED <<timers, sinceArm, burstArms, runsInBurst>>
    /\ UNCHANGED <<downVars, fetchVars, otaVars, rpcVars>>

\* the device is initialized (a sleeping device wakes up for the first time)
DeviceInitialize ==
    /\ ~initialized
    /\ initialized' = TRUE
    /\ op' = "initialize"
    /\ UNCHANGED <<model, blocks, last_input_events_count, last_cfg_changed,
                   last_mode, last_effect, run, lastRunReset>>
    /\ UNCHANGED <<reloadVars, downVars, fetchVars, otaVars, rpcVars>>

\* the device changes one of its blocks
DeviceUpdate ==
    /\ initialized
    /\ \E i \in DOMAIN blocks :
         \E b \in BlockValues(model, blocks[i]) \ {blocks[i]} :
            blocks' = [blocks EXCEPT ![i] = b]
    /\ run' = NoRun
    /\ op' = "device"
    /\ UNCHANGED <<model, initialized, last_input_events_count, last_cfg_changed,
                   last_mode, last_effect, lastRunReset>>
    /\ UNCHANGED <<reloadVars, downVars, fetchVars, otaVars, rpcVars>>

----------------------------------------------------------------------------
(* RpcDeviceWrapper._async_device_updates_handler *)

\* the input event types of an RPC device that make a click
RPC_INPUTS_EVENTS_TYPES == {"single_push", "long_push"}

\* the entries of an event record: a configuration change, an input event, an entry
\* of a type the integration does not know, an entry without a type
EventEntries ==
    {[component |-> "sys", event |-> "config_changed"],
     [component |-> "input", id |-> 1, event |-> "single_push"],
     [component |-> "input", id |-> 0, event |-> "other"],
     [component |-> "input", id |-> 0]}

\* the event records a device can hold after a notification
EventRecords ==
    {[events |-> es] : es \in UNION {[1..n -> EventEntries] : n \in 0..MaxEvents}}

\* the early return that compares nothing with the last event seen
RpcSkipNoLastEvent(init, ev, last) ==
    \/ ~init
    \/ ev = None

\* the early return of the handler
RpcSkip(init, ev, last) ==
    \/ ~init
    \/ ev = None
    \/ ev = last

\* the click event carrying the device's 0-based input id
RpcClickEventZeroBased(entry) ==
    [channel |-> entry.id, click_type |-> entry.event, generation |-> 2]

\* the click event fired on the bus
RpcClickEvent(entry) ==
    [channel |-> entry.id + 1, click_type |-> entry.event, generation |-> 2]

\* the body of the loop over device.event["events"], for one entry
ProcessEvent(st, entry) ==
    LET event_type == DictGet(entry, "event")
    IN  IF event_type = None THEN st
        ELSE IF Val(event_type) = "config_changed"
        THEN [st EXCEPT !.arms = @ + 1]
        ELSE IF Val(event_type) \in RPC_INPUTS_EVENTS_TYPES
        THEN [st EXCEPT !.fired = Append(@, RpcClickEvent(entry))]
        ELSE st

RECURSIVE ProcessEvents(_, _, _)
ProcessEvents(st, es, i) ==
    IF i > Len(es) THEN st
    ELSE ProcessEvents(ProcessEvent(st, es[i]), es, i + 1)

RpcHandler ==
    /\ listening
    /\ \/ /\ RpcSkip(initialized, event, last_event)
          /\ rpcRun' = [ran |-> TRUE, initialized |-> initialized,
                        last_before |-> last_event, fired |-> <<>>, arms |-> 0]
          /\ UNCHANGED <<last_event, armTasks>>
       \/ /\ ~RpcSkip(initialized, event, last_event)
          /\ LET st == ProcessEvents([fired |-> <<>>, arms |-> 0], Val(event).events, 1)
             IN  /\ armTasks + st.arms <= MaxTasks
                 /\ last_event' = event
                 /\ armTasks' = armTasks + st.arms
                 /\ rpcRun' = [ran |-> TRUE, initialized |-> initialized,
                               last_before |-> last_event, fired |-> st.fired,
                               arms |-> st.arms]
    /\ op' = "rpc_handler"
    /\ UNCHANGED <<initialized, event>>
    /\ UNCHANGED <<model, blocks, last_input_events_count, last_cfg_changed,
                   last_mode, last_effect, run, lastRunReset>>
    /\ UNCHANGED <<timers, sinceArm, burstArms, runsInBurst>>
    /\ UNCHANGED <<downVars, fetchVars, otaVars>>

\* the device is initialized (the first connection succeeds)
RpcInitialize ==
    /\ ~initialized
    /\ initialized' = TRUE
    /\ rpcRun' = NoRun
    /\ op' = "rpc_initialize"
    /\ UNCHANGED <<event, last_event>>
    /\ UNCHANGED <<model, blocks, last_input_events_count, last_cfg_changed,
                   last_mode, last_effect, run, lastRunReset>>
    /\ UNCHANGED <<reloadVars, downVars, fetchVars, otaVars>>

\* the device sends an event notification: device.event is replaced
RpcNotify ==
    /\ \E r \in EventRecords : event' = Some(r) /\ event' # event
    /\ rpcRun' = NoRun
    /\ op' = "rpc_notify"
    /\ UNCHANGED <<last_event>>
    /\ UNCHANGED <<blockVars, reloadVars, downVars, fetchVars, otaVars>>

----------------------------------------------------------------------------
(* The reload debounce trigger (helpers.debounce.Debouncer, immediate=False) *)

\* cooldown=ENTRY_RELOAD_COOLDOWN, in units of the model's clock
ENTRY_RELOAD_COOLDOWN == 2

\* arm() that leaves a running timer alone and only starts one when none is pending
ArmKeepsTimer(ts) == IF ts = {} THEN {ENTRY_RELOAD_COOLDOWN} ELSE ts

\* arm(): cancel the pending timer and start a new one for the whole cooldown
Arm(ts) == {ENTRY_RELOAD_COOLDOWN}

\* cancel(): abort any pending timer
Cancel(ts) == {}

\* the task created by the handler runs _debounced_reload.async_call()
RunArmTask ==
    /\ armTasks > 0
    /\ timers = {} \/ burstArms < MaxBurst
    /\ armTasks' = armTasks - 1
    /\ timers' = Arm(timers)
    /\ sinceArm' = 0
    /\ burstArms' = IF timers = {} THEN 1 ELSE burstArms + 1
    /\ runsInBurst' = IF timers = {} THEN 0 ELSE runsInBurst
    /\ op' = "arm"
    /\ UNCHANGED <<blockVars, downVars, fetchVars, otaVars, rpcVars>>

\* one unit of time passes
TimePasses ==
    /\ sinceArm < ENTRY_RELOAD_COOLDOWN \/ \E t \in timers : t > 0
    /\ timers' = {IF t > 0 THEN t - 1 ELSE 0 : t \in timers}
    /\ sinceArm' = IF sinceArm < ENTRY_RELOAD_COOLDOWN THEN sinceArm + 1 ELSE sinceArm
    /\ op' = "time"
    /\ UNCHANGED <<armTasks, burstArms, runsInBurst>>
    /\ UNCHANGED <<blockVars, downVars, fetchVars, otaVars, rpcVars>>

\* a debounce timer runs out: _async_reload_entry asks the host to reload the entry
TimerFire ==
    /\ \E t \in timers :
          /\ t = 0
          /\ timers' = timers \ {t}
    /\ runsInBurst' = runsInBurst + 1
    /\ op' = "reload"
    /\ UNCHANGED <<armTasks, sinceArm, burstArms>>
    /\ UNCHANGED <<blockVars, downVars, fetchVars, otaVars, rpcVars>>

----------------------------------------------------------------------------
(* Teardown *)

\* BlockDeviceWrapper.shutdown: self.device.shutdown()
Shutdown(log) == Append(log, "device_shutdown")

\* _handle_ha_stop, registered with async_listen_once
HandleHaStop ==
    /\ stopHook
    /\ stopHook' = FALSE
    /\ teardownLog' = Shutdown(teardownLog)
    /\ op' = "stop"
    /\ UNCHANGED <<listening>>
    /\ UNCHANGED <<blockVars, reloadVars, fetchVars, otaVars, rpcVars>>

\* the entry is unloaded: the coordinator's timers and the debounce timer are
\* cancelled (the callbacks given to entry.async_on_unload run), then the wrapper is
\* shut down
EntryUnload ==
    /\ listening
    /\ timers' = Cancel(timers)
    /\ listening' = FALSE
    /\ stopHook' = FALSE
    /\ teardownLog' = Shutdown(teardownLog \o <<"cancel_refresh", "cancel_debounce">>)
    /\ op' = "unload"
    /\ UNCHANGED <<armTasks, sinceArm, burstArms, runsInBurst>>
    /\ UNCHANGED <<blockVars, fetchVars, otaVars, rpcVars>>

TornDown == teardownLog # <<>>

DeviceShutdownCalls ==
    Cardinality({i \in DOMAIN teardownLog : teardownLog[i] = "device_shutdown"})

----------------------------------------------------------------------------
(* The polling loop: _async_update_data of the three coordinators *)

\* what the device can answer to an awaited operation
Replies(k) ==
    IF k = "rpc_poll" THEN {"ok", "oserror", "timeout", "rpctimeout"}
    ELSE {"ok", "oserror", "timeout"}

Awaits(o)      == [result |-> "await", awaits |-> o, reason |-> "none"]
Returns(why)   == [result |-> "return", awaits |-> "none", reason |-> why]
Raises(e, why) == [result |-> e, awaits |-> "none", reason |-> why]

\* BlockDeviceWrapper._async_update_data that polls a sleeping device too
BlockUpdateStartPollsSleeping(sleep) == Awaits("update")

\* BlockDeviceWrapper._async_update_data up to its await; entry.data.get() gives None
\* for an absent sleep period, and None and 0 are both falsy
BlockUpdateStart(sleep) ==
    IF sleep # None /\ Val(sleep) # 0
    THEN Raises("UpdateFailed", "sleeping")
    ELSE Awaits("update")

\* BlockDeviceWrapper._async_update_data that lets an OSError pass as a success
BlockUpdateReplySwallows(reply) ==
    IF reply = "timeout" THEN Raises("TimeoutError", reply) ELSE Returns(reply)

\* BlockDeviceWrapper._async_update_data from the answer of device.update()
BlockUpdateReply(reply) ==
    IF reply = "ok" THEN Returns(reply)
    ELSE IF reply = "oserror" THEN Raises("UpdateFailed", reply)
    ELSE Raises("TimeoutError", reply)

\* RpcDeviceWrapper._async_update_data up to its await
RpcUpdateStart(conn) ==
    IF conn THEN Returns("noop") ELSE Awaits("initialize")

\* RpcDeviceWrapper._async_update_data from the answer of device.initialize()
RpcUpdateReply(reply) ==
    IF reply = "ok" THEN Returns(reply)
    ELSE IF reply = "oserror" THEN Raises("UpdateFailed", reply)
    ELSE Raises("TimeoutError", reply)

\* RpcPollingWrapper._async_update_data that reconnects a disconnected device
PollUpdateStartReconnects(conn) ==
    IF ~conn THEN Awaits("initialize") ELSE Awaits("update_status")

\* RpcPollingWrapper._async_update_data up to its await
PollUpdateStart(conn) ==
    IF ~conn THEN Raises("UpdateFailed", "disconnected") ELSE Awaits("update_status")

\* RpcPollingWrapper._async_update_data from the answer of device.update_status()
PollUpdateReply(reply) ==
    IF reply = "ok" THEN Returns(reply)
    ELSE IF reply \in {"oserror", "rpctimeout"} THEN Raises("UpdateFailed", reply)
    ELSE Raises("TimeoutError", reply)

UpdateStart ==
    IF kind = "block" THEN BlockUpdateStart(sleep_period)
    ELSE IF kind = "rpc" THEN RpcUpdateStart(connected)
    ELSE PollUpdateStart(connected)

UpdateReply(reply) ==
    IF kind = "block" THEN BlockUpdateReply(reply)
    ELSE IF kind = "rpc" THEN RpcUpdateReply(reply)
    ELSE PollUpdateReply(reply)

\* a tick that starts a fetch whatever is running
TickAlwaysStarts(n) == TRUE

\* the in-flight guard: a tick starts a fetch only when none is running
TickStarts(n) == n = 0

\* the coordinator takes the end of a fetch: a returned value is stored (the
\* _async_update_data of this file return None), a failure keeps the data
FetchDone(r) ==
    /\ lastData' = IF r.result = "return" THEN None ELSE lastData
    /\ lastUpdateSucceeded' = (r.result = "return")
    /\ outcome' = r.reason

\* an interval tick or a forced refresh
Tick ==
    /\ \/ /\ ~TickStarts(inFlight)
          /\ op' = "tick_ignored"
          /\ UNCHANGED <<inFlight, awaiting, lastData, lastUpdateSucceeded, outcome>>
       \/ /\ TickStarts(inFlight)
          /\ LET r == UpdateStart
             IN  \/ /\ r.result = "await"
                    /\ inFlight' = inFlight + 1
                    /\ awaiting' = r.awaits
                    /\ op' = "fetch_start"
                    /\ UNCHANGED <<lastData, lastUpdateSucceeded, outcome>>
                 \/ /\ r.result # "await"
                    /\ FetchDone(r)
                    /\ op' = "fetch_done"
                    /\ UNCHANGED <<inFlight, awaiting>>
    /\ UNCHANGED <<kind, sleep_period, connected>>
    /\ UNCHANGED <<blockVars, reloadVars, downVars, otaVars, rpcVars>>

\* the device answers the operation a fetch awaits
DeviceReply ==
    /\ inFlight > 0
    /\ \E reply \in Replies(kind) :
          /\ FetchDone(UpdateReply(reply))
          /\ connected' = IF awaiting = "initialize" /\ reply = "ok" THEN TRUE ELSE connected
    /\ inFlight' = inFlight - 1
    /\ awaiting' = "none"
    /\ op' = "fetch_done"
    /\ UNCHANGED <<kind, sleep_period>>
    /\ UNCHANGED <<blockVars, reloadVars, downVars, otaVars, rpcVars>>

\* the device pushes new data: device.subscribe_updates(self.async_set_updated_data)
Push ==
    /\ kind \in {"block", "rpc"}
    /\ \E d \in 1..MaxData : lastData' = Some(d)
    /\ lastUpdateSucceeded' = TRUE
    /\ op' = "push"
    /\ UNCHANGED <<kind, sleep_period, connected, inFlight, awaiting, outcome>>
    /\ UNCHANGED <<blockVars, reloadVars, downVars, otaVars, rpcVars>>

\* the connection to an RPC device drops or comes back
ConnectionChange ==
    /\ kind # "block"
    /\ connected' = ~connected
    /\ op' = "connection"
    /\ UNCHANGED <<kind, sleep_period, inFlight, awaiting, lastData,
                   lastUpdateSucceeded, outcome>>
    /\ UNCHANGED <<blockVars, reloadVars, downVars, otaVars, rpcVars>>

----------------------------------------------------------------------------
(* async_trigger_ota_update *)

OtaStatuses(k) ==
    IF k = "block"
    THEN {[has_update |-> h, beta_version |-> b, status |-> s, available_updates |-> {}] :
             h \in BOOLEAN, b \in {None, Some("beta")}, s \in {"idle", "updating"}}
    ELSE {[has_update |-> FALSE, beta_version |-> None, status |-> s,
           available_updates |-> a] :
             s \in {"idle", "updating"}, a \in SUBSET {"stable", "beta"}}

\* BlockDeviceWrapper.async_trigger_ota_update without the beta channel test
BlockOtaCheckNoBetaTest(update_data, beta) ==
    IF ~update_data.has_update /\ ~beta THEN "no_update"
    ELSE IF update_data.status = "updating" THEN "updating"
    ELSE "trigger"

\* BlockDeviceWrapper.async_trigger_ota_update up to the device command
BlockOtaCheck(update_data, beta) ==
    IF ~update_data.has_update /\ ~beta THEN "no_update"
    ELSE IF beta /\ update_data.beta_version = None THEN "no_beta"
    ELSE IF update_data.status = "updating" THEN "updating"
    ELSE "trigger"

\* BlockDeviceWrapper.async_trigger_ota_update after the device command: a timeout
\* or an OSError is caught and logged, and the debug line that follows reads
\* `result`, which only a completed command binds
BlockOtaAfter(reply) ==
    IF reply = "ok" THEN "returned" ELSE "raised"

\* RpcDeviceWrapper.async_trigger_ota_update up to the device command
RpcOtaCheck(update_data, beta) ==
    IF update_data.available_updates = {}
       \/ ("stable" \notin update_data.available_updates /\ ~beta)
    THEN "no_update"
    ELSE IF beta /\ "beta" \notin update_data.available_updates THEN "no_beta"
    ELSE "trigger"

\* RpcDeviceWrapper.async_trigger_ota_update after the device command
RpcOtaAfter(reply) == "returned"

OtaCheck(update_data, beta) ==
    IF otaKind = "block" THEN BlockOtaCheck(update_data, beta)
    ELSE RpcOtaCheck(update_data, beta)

OtaAfter(reply) ==
    IF otaKind = "block" THEN BlockOtaAfter(reply) ELSE RpcOtaAfter(reply)

\* a caller invokes async_trigger_ota_update(beta); the invocations are numbered in
\* the order they start
OtaStart ==
    /\ \E i \in DOMAIN ota, beta \in BOOLEAN :
          /\ ota[i].pc = "idle"
          /\ \A j \in 1..(i - 1) : ota[j].pc # "idle"
          /\ LET check == OtaCheck(otaStatus, beta)
             IN  ota' = [ota EXCEPT ![i] =
                            [pc |-> IF check = "trigger" THEN "awaiting" ELSE "returned",
                             beta |-> beta,
                             issued |-> (check = "trigger")]]
    /\ op' = "ota_start"
    /\ UNCHANGED <<otaKind, otaStatus>>
    /\ UNCHANGED <<blockVars, reloadVars, downVars, fetchVars, rpcVars>>

\* the device answers trigger_ota_update, or the timeout ends the wait
OtaReply ==
    /\ \E i \in DOMAIN ota, reply \in {"ok", "timeout", "oserror"} :
          /\ ota[i].pc = "awaiting"
          /\ ota' = [ota EXCEPT ![i].pc = OtaAfter(reply)]
    /\ op' = "ota_reply"
    /\ UNCHANGED <<otaKind, otaStatus>>
    /\ UNCHANGED <<blockVars, reloadVars, downVars, fetchVars, rpcVars>>

\* the polled device status changes
OtaStatusChange ==
    /\ otaStatus' \in OtaStatuses(otaKind) \ {otaStatus}
    /\ op' = "ota_status"
    /\ UNCHANGED <<otaKind, ota>>
    /\ UNCHANGED <<blockVars, reloadVars, downVars, fetchVars, rpcVars>>

\* the device commands issued so far
OtaCommands == Cardinality({i \in DOMAIN ota : ota[i].issued})

----------------------------------------------------------------------------
(* Initial states *)

BlockInit(ms) ==
    /\ model \in ms
    /\ initialized = FALSE
    /\ blocks \in InitialSnapshots(model)
    /\ last_input_events_count = <<>>
    /\ last_cfg_changed = None
    /\ last_mode = None
    /\ last_effect = None
    /\ run = NoRun
    /\ lastRunReset = FALSE

ReloadInit ==
    /\ armTasks = 0
    /\ timers = {}
    /\ sinceArm = ENTRY_RELOAD_COOLDOWN
    /\ burstArms = 0
    /\ runsInBurst = 0

RpcInit ==
    /\ event = None
    /\ last_event = None
    /\ rpcRun = NoRun

DownInit ==
    /\ listening = TRUE
    /\ stopHook = TRUE
    /\ teardownLog = <<>>

FetchInit(ks) ==
    /\ kind \in ks
    /\ sleep_period \in (IF kind = "block" THEN {None, Some(0), Some(1)} ELSE {Some(0)})
    /\ connected \in (IF kind = "block" THEN {TRUE} ELSE BOOLEAN)
    /\ inFlight = 0
    /\ awaiting = "none"
    /\ lastData = None
    /\ lastUpdateSucceeded = TRUE
    /\ outcome = "none"

OtaInit(ks) ==
    /\ otaKind \in ks
    /\ otaStatus = [has_update |-> FALSE, beta_version |-> None, status |-> "idle",
                    available_updates |-> {}]
    /\ ota = [i \in 1..NumOtaCalls |-> [pc |-> "idle", beta |-> FALSE, issued |-> FALSE]]

----------------------------------------------------------------------------
(* SpecBlock: the update handler on a changing device. The arming tasks the      *)
(* handler creates stay in the event loop here; SpecReload runs them.           *)

InitBlock ==
    /\ op = "init"
    /\ BlockInit(ModelClasses)
    /\ RpcInit
    /\ ReloadInit /\ DownInit /\ FetchInit({"block"}) /\ OtaInit({"block"})
    /\ sleep_period = Some(0)

NextBlock == DeviceInitialize \/ DeviceUpdate \/ BlockHandler

SpecBlock == InitBlock /\ [][NextBlock]_vars

----------------------------------------------------------------------------
(* SpecReload: a block coordinator whose device reports only its device block; *)
(* the handler arms the reload trigger, time passes, the entry is torn down.   *)

InitReload ==
    /\ op = "init"
    /\ model = PlainModel
    /\ initialized = FALSE
    /\ blocks = <<DeviceBlock(0, <<"periodic">>)>>
    /\ last_input_events_count = <<>>
    /\ last_cfg_changed = None
    /\ last_mode = None
    /\ last_effect = None
    /\ run = NoRun
    /\ lastRunReset = FALSE
    /\ RpcInit
    /\ ReloadInit /\ DownInit /\ FetchInit({"block"}) /\ OtaInit({"block"})
    /\ sleep_period = Some(0)

NextReload ==
    \/ DeviceInitialize
    \/ DeviceUpdate
    \/ BlockHandler
    \/ RunArmTask
    \/ TimePasses
    \/ TimerFire
    \/ HandleHaStop
    \/ EntryUnload

SpecReload == InitReload /\ [][NextReload]_vars

----------------------------------------------------------------------------
(* SpecFetch: ticks, forced refreshes, device answers and pushes *)

InitOther ==
    /\ model = PlainModel
    /\ initialized = FALSE
    /\ blocks = InitialBlocks(PlainModel)
    /\ last_input_events_count = <<>>
    /\ last_cfg_changed = None
    /\ last_mode = None
    /\ last_effect = None
    /\ run = NoRun
    /\ lastRunReset = FALSE
    /\ RpcInit
    /\ ReloadInit /\ DownInit

InitFetch ==
    /\ op = "init"
    /\ InitOther
    /\ FetchInit({"block", "rpc", "rpc_poll"})
    /\ OtaInit({"block"})

NextFetch == Tick \/ DeviceReply \/ Push \/ ConnectionChange

SpecFetch == InitFetch /\ [][NextFetch]_vars

----------------------------------------------------------------------------
(* SpecOta: invocations of the OTA trigger against a changing device status *)

InitOta ==
    /\ op = "init"
    /\ InitOther
    /\ FetchInit({"block"}) /\ sleep_period = Some(0)
    /\ OtaInit({"block", "rpc"})

NextOta == OtaStart \/ OtaReply \/ OtaStatusChange

SpecOta == InitOta /\ [][NextOta]_vars

----------------------------------------------------------------------------
(* SpecRpc: the update handler of an RPC device and the event records it is told  *)
(* about. The arming tasks the handler creates stay in the event loop here.       *)

InitRpc ==
    /\ op = "init"
    /\ InitOther
    /\ FetchInit({"rpc"}) /\ connected = TRUE
    /\ OtaInit({"rpc"})

NextRpc == RpcInitialize \/ RpcNotify \/ RpcHandler

SpecRpc == InitRpc /\ [][NextRpc]_vars

----------------------------------------------------------------------------
(* Properties of the update handler (SpecBlock) *)

\* the blocks that report both an event type and an event counter
InputBlocks ==
    {i \in DOMAIN blocks : {"inputEvent", "inputEventCnt"} \subseteq blocks[i].sensor_ids}

\* the physical, 1-indexed channel of a block
PhysChannel(b) == (IF b.channel = None THEN 0 ELSE IntOfStr[Val(b.channel)]) + 1

\* the clicks the last handler run emitted for a channel
ClicksFor(ch) == {k \in DOMAIN run.fired : run.fired[k].channel = ch}

\* the baseline of a channel now equals the counter of block i
BaselineIs(ch, i) ==
    ch \in DOMAIN last_input_events_count
    /\ last_input_events_count[ch] = blocks[i].inputEventCnt

\* the first device block reports a wake-up by the button alone
WokenByButton ==
    \E i \in DOMAIN blocks :
        /\ blocks[i].type = "device"
        /\ \A j \in 1..(i - 1) : blocks[j].type # "device"
        /\ blocks[i].wakeupEvent = <<"button">>

\* C1 as stated: for every model and channel, a handler run that finds no baseline
\* stored for a channel emits no click for it and stores the observed counter.
C1_FirstObservationSilent ==
    run.ran =>
      \A i \in InputBlocks :
        LET ch == PhysChannel(blocks[i])
        IN  ch \notin DOMAIN run.before =>
              ClicksFor(ch) = {} /\ BaselineIs(ch, i)

\* C1 amended: a handler run that finds no baseline stored for a channel stores the
\* observed counter, and emits no click for the channel unless the model is a
\* battery button, the channel is 1 and the device block reports a wake-up by the
\* button (the handler then primes the baseline with -1 before it compares).
C1_FirstObservationSilentUnlessPrimed ==
    run.ran =>
      \A i \in InputBlocks :
        LET ch == PhysChannel(blocks[i])
        IN  ch \notin DOMAIN run.before =>
              /\ BaselineIs(ch, i)
              /\ ~(model.shbtn /\ ch = 1 /\ WokenByButton) => ClicksFor(ch) = {}

\* C1 witness: a first observation with a known event type and a non-zero counter,
\* on a button model not woken by its button, emitted nothing.
C1_Witness ==
    /\ run.ran
    /\ model.shbtn /\ ~WokenByButton
    /\ \E i \in InputBlocks :
          /\ PhysChannel(blocks[i]) \notin DOMAIN run.before
          /\ blocks[i].inputEvent = "S"
          /\ blocks[i].inputEventCnt = 1
          /\ run.fired = <<>>
          /\ BaselineIs(PhysChannel(blocks[i]), i)

\* C2: a channel with a stored baseline, a counter that differs from it and an event
\* type of the lookup table gets exactly one click in the run, carrying the table's
\* click type, the 1-indexed channel and generation 1; the baseline becomes the
\* observed counter.
C2_NewEventEmitsOneClick ==
    run.ran =>
      \A i \in InputBlocks :
        LET ch == PhysChannel(blocks[i])
            b == blocks[i]
        IN  (/\ ch \in DOMAIN run.before
             /\ run.before[ch] # b.inputEventCnt
             /\ b.inputEvent \in DOMAIN INPUTS_EVENTS_DICT)
            => /\ Cardinality(ClicksFor(ch)) = 1
               /\ \A k \in ClicksFor(ch) :
                     run.fired[k] = [channel |-> ch,
                                     click_type |-> INPUTS_EVENTS_DICT[b.inputEvent],
                                     generation |-> 1]
               /\ BaselineIs(ch, i)

\* C2 witness: channel 2 (device channel index 1) went from baseline 0 to counter 1
\* with a long press and got its click.
C2_Witness ==
    /\ run.ran
    /\ \E i \in InputBlocks :
          /\ blocks[i].channel = Some("1")
          /\ 2 \in DOMAIN run.before /\ run.before[2] = 0
          /\ blocks[i].inputEvent = "L" /\ blocks[i].inputEventCnt = 1
          /\ run.fired = <<[channel |-> 2, click_type |-> "long", generation |-> 1]>>
          /\ last_input_events_count[2] = 1

\* C12: for every channel that reports an event type and an event counter, a run
\* that finds the counter equal to the stored baseline, or the event type empty,
\* emits no click for the channel; and in every case the channel's baseline after
\* the run is the observed counter.
C12_NoNewEventNoClick ==
    run.ran =>
      \A i \in InputBlocks :
        LET ch == PhysChannel(blocks[i])
            b == blocks[i]
        IN  /\ BaselineIs(ch, i)
            /\ ((ch \in DOMAIN run.before /\ run.before[ch] = b.inputEventCnt)
                \/ b.inputEvent = "")
               => ClicksFor(ch) = {}

\* C12 witness: a channel whose counter 1 equals its baseline 1 reports a known,
\* non-empty event type and gets no click.
C12_Witness ==
    /\ run.ran
    /\ \E i \in InputBlocks :
          LET ch == PhysChannel(blocks[i])
          IN  /\ ch \in DOMAIN run.before /\ run.before[ch] = 1
              /\ blocks[i].inputEvent = "S" /\ blocks[i].inputEventCnt = 1
              /\ ClicksFor(ch) = {}
              /\ BaselineIs(ch, i)

\* the warnings the last handler run logged for a channel
WarningsFor(ch) == {k \in DOMAIN run.warnings : run.warnings[k].channel = ch}

\* the config-changed counter a run reads: the device block's, 0 without one
CfgCounter ==
    IF \E i \in DOMAIN blocks : blocks[i].type = "device"
    THEN blocks[CHOOSE i \in DOMAIN blocks : blocks[i].type = "device"].cfgChanged
    ELSE 0

\* the run went on after block i: every other channel has its baseline refreshed and
\* gets its click when it has a new event of a known type, and the config-changed
\* counter was compared and stored
RestOfRunProceeds(i) ==
    /\ \A j \in InputBlocks \ {i} :
          LET ch == PhysChannel(blocks[j])
          IN  /\ BaselineIs(ch, j)
              /\ (/\ ch \in DOMAIN run.before
                  /\ run.before[ch] # blocks[j].inputEventCnt
                  /\ blocks[j].inputEvent \in DOMAIN INPUTS_EVENTS_DICT)
                 => Cardinality(ClicksFor(ch)) = 1
    /\ last_cfg_changed = Some(CfgCounter)
    /\ run.armed = (run.cfg_before # None /\ CfgCounter > Val(run.cfg_before))

\* what C13 promises for the channel of block i
UnknownTypeHandled(i) ==
    LET ch == PhysChannel(blocks[i])
    IN  /\ ClicksFor(ch) = {}
        /\ Cardinality(WarningsFor(ch)) = 1
        /\ \A k \in WarningsFor(ch) : run.warnings[k].event_type = blocks[i].inputEvent
        /\ BaselineIs(ch, i)
        /\ RestOfRunProceeds(i)

\* C13 as stated: a channel whose counter differs from its stored baseline and whose
\* event type is not in the click lookup table gets no click and exactly one
\* warning, its baseline becomes the observed counter, and the rest of the run
\* (other channels, config-change detection) proceeds.
C13_UnknownTypeWarnsOnce ==
    run.ran =>
      \A i \in InputBlocks :
        LET ch == PhysChannel(blocks[i])
        IN  (/\ ch \in DOMAIN run.before
             /\ run.before[ch] # blocks[i].inputEventCnt
             /\ blocks[i].inputEvent \notin DOMAIN INPUTS_EVENTS_DICT)
            => UnknownTypeHandled(i)

\* C13 amended: the same for a non-empty event type that is not in the click lookup
\* table (an empty event type is dropped before the lookup, without a warning).
C13_NonEmptyUnknownTypeWarnsOnce ==
    run.ran =>
      \A i \in InputBlocks :
        LET ch == PhysChannel(blocks[i])
        IN  (/\ ch \in DOMAIN run.before
             /\ run.before[ch] # blocks[i].inputEventCnt
             /\ blocks[i].inputEvent # ""
             /\ blocks[i].inputEvent \notin DOMAIN INPUTS_EVENTS_DICT)
            => UnknownTypeHandled(i)

\* C13 witness: channel 1 reported a new event of the unknown type and got its
\* warning, channel 2 after it got a click, and the reload trigger was armed.
C13_Witness ==
    /\ run.ran
    /\ 1 \in DOMAIN run.before /\ 2 \in DOMAIN run.before
    /\ run.warnings = <<[channel |-> 1, event_type |-> "Z"]>>
    /\ run.fired = <<[channel |-> 2, click_type |-> "long", generation |-> 1]>>
    /\ run.armed
    /\ last_input_events_count[1] = 1

\* the run saw a mode (an effect) that differs from the stored one, on a model whose
\* mode (effect) the handler tracks
ModeChangeObserved ==
    /\ model.dual
    /\ \E i \in DOMAIN blocks :
          "mode" \in blocks[i].sensor_ids /\ run.mode_before # Some(blocks[i].mode)

EffectChangeObserved ==
    /\ model.effects
    /\ \E i \in DOMAIN blocks :
          "effect" \in blocks[i].sensor_ids /\ run.effect_before # Some(blocks[i].effect)

\* a config-changed baseline was stored when the run began and the device's counter
\* is strictly greater
CfgCounterIncreased ==
    run.cfg_before # None /\ CfgCounter > Val(run.cfg_before)

\* C14 as stated: a handler run arms the reload trigger if and only if a
\* config-changed baseline is stored and the device's counter is strictly greater
\* than it.
C14_ArmsIffCounterIncreased ==
    run.ran => (run.armed = CfgCounterIncreased)

\* C14 amended: a handler run arms the reload trigger if and only if a
\* config-changed baseline is stored when the run begins, the device's counter is
\* strictly greater than it, and the run sees no change of a tracked mode or effect;
\* so a first read, an equal counter and a lower counter never arm.
C14_ArmsIffCounterIncreasedAndNoModeChange ==
    run.ran =>
        /\ run.armed = (/\ CfgCounterIncreased
                        /\ ~ModeChangeObserved
                        /\ ~EffectChangeObserved)
        /\ run.cfg_before = None => ~run.armed
        /\ (run.cfg_before # None /\ CfgCounter <= Val(run.cfg_before)) => ~run.armed

\* C14 witness: on a dual-mode model whose mode and effect did not change, the
\* counter went from the stored 0 to 1 and the run armed the trigger.
C14_Witness ==
    /\ run.ran
    /\ model.dual
    /\ run.cfg_before = Some(0)
    /\ CfgCounter = 1
    /\ ~ModeChangeObserved /\ ~EffectChangeObserved
    /\ run.armed
    /\ armTasks > 0

\* C15: on a model whose mode (effect) is tracked, a run that sees a mode (effect)
\* different from the stored one resets the config-changed baseline to unknown
\* before the counter is compared and does not arm the reload trigger, whatever the
\* counter did; the stored mode and effect become the observed ones.
C15_ModeChangeSuppressesReload ==
    (run.ran /\ (ModeChangeObserved \/ EffectChangeObserved)) =>
        /\ run.cfg_compared = None
        /\ ~run.armed
        /\ \A i \in DOMAIN blocks :
              /\ (model.dual /\ "mode" \in blocks[i].sensor_ids)
                    => last_mode = Some(blocks[i].mode)
              /\ (model.effects /\ "effect" \in blocks[i].sensor_ids)
                    => last_effect = Some(blocks[i].effect)

\* C15 witness: a dual-mode light went from color to white while its
\* config-changed counter went from the stored 0 to 1, and the run did not arm.
C15_Witness ==
    /\ run.ran
    /\ model.dual
    /\ run.mode_before = Some("color")
    /\ last_mode = Some("white")
    /\ run.effect_before = last_effect
    /\ CfgCounterIncreased
    /\ ~run.armed
    /\ armTasks = 0

\* C20: a handler run that follows another run with no change of the device's
\* blocks in between emits no click, does not arm the reload trigger and leaves the
\* event-counter baselines, the config-changed baseline, the stored mode and the
\* stored effect as they were, on every model.
C20_SecondRunChangesNothing ==
    (run.ran /\ run.again) =>
        /\ run.fired = <<>>
        /\ ~run.armed
        /\ last_input_events_count = run.before
        /\ last_cfg_changed = run.cfg_before
        /\ last_mode = run.mode_before
        /\ last_effect = run.effect_before

\* C20 witness: a battery button woken by its button and reporting a press was
\* handled a second time on the same snapshot, without a click.
C20_Witness ==
    /\ run.ran /\ run.again
    /\ model.shbtn /\ WokenByButton
    /\ \E i \in InputBlocks :
          /\ blocks[i].inputEvent = "S"
          /\ blocks[i].inputEventCnt = 1
          /\ BaselineIs(1, i)
    /\ run.fired = <<>>

\* C21: after every handler run on an initialized device the stored config-changed
\* baseline is known and is the counter read in the run (0 without a device block),
\* also when the run reset it to unknown for a mode or effect change; so in the run
\* after one that reset a stored baseline the baseline is known, and a counter
\* above it arms the reload trigger unless that run sees a mode or effect change of
\* its own.
C21_BaselineKnownAfterRun ==
    run.ran =>
        /\ last_cfg_changed = Some(CfgCounter)
        /\ run.after_reset =>
              /\ run.cfg_before # None
              /\ (/\ CfgCounter > Val(run.cfg_before)
                  /\ ~ModeChangeObserved
                  /\ ~EffectChangeObserved) => run.armed

\* C21 witness: a dual-mode light whose last run reset the stored baseline for a
\* mode or effect change; the counter then went from 0 to 1 and this run armed.
C21_Witness ==
    /\ run.ran
    /\ model.dual
    /\ run.after_reset
    /\ run.cfg_before = Some(0)
    /\ CfgCounter = 1
    /\ run.armed
    /\ last_cfg_changed = Some(1)

----------------------------------------------------------------------------
(* Properties of the update handler of an RPC device (SpecRpc) *)

\* an entry whose type is in the input-event lookup table
IsClickEntry(e) == "event" \in DOMAIN e /\ e.event \in RPC_INPUTS_EVENTS_TYPES

\* an entry that reports a configuration change
IsConfigChanged(e) == "event" \in DOMAIN e /\ e.event = "config_changed"

\* the last handler run found an initialized device holding an event record other
\* than the last one seen
NewEventSeen ==
    /\ rpcRun.ran
    /\ rpcRun.initialized
    /\ event # None
    /\ event # rpcRun.last_before

\* C16: a handler run that finds the device uninitialized, without an event record,
\* or holding the event record the handler saw last emits no click, does not arm the
\* reload trigger and leaves the stored last event as it was; so notifications
\* repeated over one event record emit its clicks once.
C16_SeenEventIgnored ==
    (rpcRun.ran /\ ~NewEventSeen) =>
        /\ rpcRun.fired = <<>>
        /\ rpcRun.arms = 0
        /\ last_event = rpcRun.last_before

\* C16 witness: the handler ran again over an event record that holds an input event
\* and a configuration change, and did nothing.
C16_Witness ==
    /\ rpcRun.ran
    /\ rpcRun.initialized
    /\ event # None
    /\ event = rpcRun.last_before
    /\ \E k \in DOMAIN Val(event).events : IsClickEntry(Val(event).events[k])
    /\ \E k \in DOMAIN Val(event).events : IsConfigChanged(Val(event).events[k])
    /\ rpcRun.fired = <<>>
    /\ rpcRun.arms = 0

\* C17: a handler run over a new event record emits, in the order of the entries,
\* exactly one click for every entry whose type is in the input-event lookup table,
\* with channel = entry id + 1, the entry's type as click type and generation 2;
\* it arms the reload trigger once for every config_changed entry; entries without a
\* type or with any other type add nothing and do not end the run.
C17_EntriesClassified ==
    NewEventSeen =>
        LET es == Val(event).events
            cs == SelectSeq(es, IsClickEntry)
        IN  /\ Len(rpcRun.fired) = Len(cs)
            /\ \A k \in DOMAIN cs :
                  rpcRun.fired[k] = [channel |-> cs[k].id + 1,
                                     click_type |-> cs[k].event,
                                     generation |-> 2]
            /\ rpcRun.arms = Cardinality({k \in DOMAIN es : IsConfigChanged(es[k])})

\* C17 witness: a new record lists an entry of an unknown type and then an input
\* event of input 1; the run emitted the one click, for channel 2.
C17_Witness ==
    /\ NewEventSeen
    /\ Val(event).events = <<[component |-> "input", id |-> 0, event |-> "other"],
                             [component |-> "input", id |-> 1, event |-> "single_push"]>>
    /\ rpcRun.fired = <<[channel |-> 2, click_type |-> "single_push", generation |-> 2]>>
    /\ rpcRun.arms = 0
    /\ last_event = event

----------------------------------------------------------------------------
(* Properties of the reload trigger and of teardown (SpecReload) *)

\* C6: however often the trigger is armed before its timer runs out, the reload
\* runs once for the burst, and no earlier than the cooldown after the last arming
\* call.
C6_DebounceRunsOnceAfterCooldown ==
    /\ runsInBurst <= 1
    /\ op = "reload" => sinceArm >= ENTRY_RELOAD_COOLDOWN

\* C6 witness: three arming calls in one burst, then the one reload.
C6_Witness ==
    /\ op = "reload"
    /\ burstArms = 3
    /\ runsInBurst = 1
    /\ timers = {}

\* C9: a second run of the teardown path makes no further device shutdown call.
C9_TeardownTwiceOneShutdown == DeviceShutdownCalls <= 1

\* C10: once the coordinator is torn down no reload runs, and teardown cancels the
\* coordinator timers, then the debounce timer, then shuts the device down.
C10_NoReloadAfterTeardown ==
    /\ op = "reload" => ~TornDown
    /\ TornDown =>
         /\ Len(teardownLog) >= 3
         /\ SubSeq(teardownLog, 1, 3) =
                <<"cancel_refresh", "cancel_debounce", "device_shutdown">>

----------------------------------------------------------------------------
(* Properties of the OTA trigger (SpecOta) *)

\* no update is available on the channel an invocation asked for
NoUpdateOnChannel(k, st, beta) ==
    IF k = "block"
    THEN IF beta THEN st.beta_version = None ELSE ~st.has_update
    ELSE IF beta THEN "beta" \notin st.available_updates
                 ELSE "stable" \notin st.available_updates

\* the invocation that started last
LastStarted ==
    CHOOSE i \in DOMAIN ota :
        ota[i].pc # "idle" /\ \A j \in DOMAIN ota : j > i => ota[j].pc = "idle"

\* C3: the OTA trigger never raises to its caller when the device command fails
\* with a timeout or an I/O error (an invocation only ever raises after such a
\* failure).
C3_OtaNeverRaises == \A i \in DOMAIN ota : ota[i].pc # "raised"

\* C4: an invocation that finds no update on the requested channel issues no device
\* command and returns without raising, on both wrappers, whatever the rest of the
\* status says.
C4_NoUpdateNoCommand ==
    op = "ota_start" =>
        LET i == LastStarted
        IN  NoUpdateOnChannel(otaKind, otaStatus, ota[i].beta)
                => ~ota[i].issued /\ ota[i].pc = "returned"

\* C4 witness: a beta request on a block device that reports a stable update and no
\* beta version returned without a command.
C4_Witness ==
    /\ op = "ota_start"
    /\ otaKind = "block"
    /\ ota[LastStarted].beta
    /\ otaStatus.has_update
    /\ otaStatus.beta_version = None
    /\ otaStatus.status = "idle"
    /\ ota[LastStarted].pc = "returned"
    /\ ~ota[LastStarted].issued

\* C5: an invocation that reads a status reporting an update in progress issues no
\* device command, on every wrapper that offers the trigger.
C5_UpdatingNoCommand ==
    op = "ota_start" =>
        (otaStatus.status = "updating" => ~ota[LastStarted].issued)

\* C11: when an invocation starts while an earlier one still awaits the device
\* command and the status read does not report an update in progress, the later
\* invocation issues no second device command.
C11_OverlapOneCommand ==
    op = "ota_start" =>
        LET j == LastStarted
        IN  \A i \in 1..(j - 1) :
               (ota[i].pc = "awaiting" /\ otaStatus.status # "updating")
                   => ~ota[j].issued

----------------------------------------------------------------------------
(* Properties of the polling loop (SpecFetch) *)

\* the ways a fetch fails
FailureOutcomes == {"sleeping", "disconnected", "oserror", "timeout", "rpctimeout"}

\* C7: at most one fetch of the coordinator is in flight; a tick that arrives while
\* one is running starts no second one.
C7_OneFetchInFlight ==
    /\ inFlight <= 1
    /\ (inFlight = 1) = (awaiting # "none")

\* C7 witness: a tick arrived while a fetch was running and was ignored.
C7_Witness ==
    /\ op = "tick_ignored"
    /\ inFlight = 1
    /\ awaiting = "update"

\* C8: a fetch that ends in an I/O error, a timeout, a sleeping device or a
\* disconnection leaves the stored data as it was and sets lastUpdateSucceeded false.
C8_FailedFetchKeepsData ==
    [][(op' = "fetch_done" /\ outcome' \in FailureOutcomes)
          => (lastData' = lastData /\ lastUpdateSucceeded' = FALSE)]_vars

\* C8 witness: a block coordinator holding pushed data after a fetch that ended in
\* an I/O error.
C8_Witness ==
    /\ kind = "block"
    /\ op = "fetch_done"
    /\ outcome = "oserror"
    /\ lastData = Some(2)
    /\ lastUpdateSucceeded = FALSE

\* a step in which a tick starts a fetch (a fetch only starts when none is running)
FetchStarts == inFlight = 0 /\ op' \in {"fetch_start", "fetch_done"}

\* the fetch ended at once as a failure for the given reason, with no device
\* operation awaited
FailsAtOnce(why) ==
    /\ op' = "fetch_done"
    /\ outcome' = why
    /\ lastUpdateSucceeded' = FALSE
    /\ inFlight' = 0
    /\ awaiting' = "none"

\* the fetch awaits the given device operation
NowAwaits(o) ==
    /\ op' = "fetch_start"
    /\ inFlight' = 1
    /\ awaiting' = o

\* C18: every fetch of a block coordinator with a non-zero sleep period ends as
\* "update failed" without a request to the device; with a sleep period of zero or
\* none configured, every fetch calls the device's update().
C18_SleepingDeviceNeverPolled ==
    [][(kind = "block" /\ FetchStarts) =>
          IF sleep_period # None /\ Val(sleep_period) # 0
          THEN FailsAtOnce("sleeping")
          ELSE NowAwaits("update")]_vars

\* C18 witness: a fetch on a sleeping block device failed at once and left the
\* pushed data in place.
C18_Witness ==
    /\ kind = "block"
    /\ sleep_period = Some(1)
    /\ op = "fetch_done"
    /\ outcome = "sleeping"
    /\ lastUpdateSucceeded = FALSE
    /\ lastData # None
    /\ inFlight = 0 /\ awaiting = "none"

\* C19: a fetch of the reconnect coordinator is a successful no-op with no device
\* operation while the device is connected and calls initialize() while it is not;
\* a fetch of the polling coordinator ends as "update failed" with no device
\* operation while the device is disconnected and calls update_status() while it is
\* connected.
C19_DeviceOperationsGatedOnConnected ==
    [][/\ (kind = "rpc" /\ FetchStarts) =>
             IF connected
             THEN /\ op' = "fetch_done"
                  /\ outcome' = "noop"
                  /\ lastUpdateSucceeded' = TRUE
                  /\ inFlight' = 0
                  /\ awaiting' = "none"
             ELSE NowAwaits("initialize")
       /\ (kind = "rpc_poll" /\ FetchStarts) =>
             IF connected
             THEN NowAwaits("update_status")
             ELSE FailsAtOnce("disconnected")
       /\ kind = "rpc_poll" => awaiting' # "initialize"]_vars

\* C19 witness: a fetch of the polling coordinator on a disconnected device failed
\* at once and the device is still disconnected.
C19_Witness ==
    /\ kind = "rpc_poll"
    /\ ~connected
    /\ op = "fetch_done"
    /\ outcome = "disconnected"
    /\ lastUpdateSucceeded = FALSE
    /\ inFlight = 0 /\ awaiting = "none"

====
